---------------------------- MODULE Spec2Model ----------------------------
(***************************************************************************)
(* A model of OSMxtract: the Overpass QL query builder (ql_query), the    *)
(* request dispatcher (request), the response parser (as_geojson) and the *)
(* command-line pipeline (cli) that chains them.                          *)
(*                                                                         *)
(* Python strings on which the code does character work (values, tags,    *)
(* geometry names, the query text) are sequences of one-character         *)
(* strings.  A Python dict with string values and no fixed key set (an    *)
(* element's tags) is a set of <<key, value>> pairs; a dict with fixed    *)
(* but optional keys (an element, a response) is a record whose DOMAIN is *)
(* the set of keys present.  An optional value is a sequence of length 0  *)
(* (Python None / argument absent) or 1.                                  *)
(***************************************************************************)
EXTENDS Integers, Sequences, FiniteSets, TLC

VARIABLES
    pc,        \* position of the running call or of the cli command
    opts,      \* arguments of the call, or options of the cli command
    bounds,    \* resolved bounding box (optional)
    query,     \* Overpass QL query text (optional)
    http,      \* HTTP response received from the endpoint (optional)
    response,  \* decoded JSON body (optional)
    fc,        \* GeoJSON FeatureCollection (optional)
    error,     \* name of the exception raised, "none" when none
    file,      \* content of the output file (optional: absent when no file)
    opened,    \* number of times the output file was opened for writing
    gets,      \* number of HTTP GET requests issued
    decoded,   \* whether response.json() was called
    utm_crs    \* CRS returned by a call of _find_utm_crs (optional)

vars == <<pc, opts, bounds, query, http, response, fc, error, file, opened, gets, decoded, utm_crs>>

---------------------------------------------------------------------------
(* Bounds of the model *)

\* longest values list drawn for ql_query
MaxValues == 2
\* longest elements list drawn for as_geojson
MaxElems == 2

---------------------------------------------------------------------------
(* Python values *)

None == <<>>
Some(x) == <<x>>
IsNone(o) == Len(o) = 0

\* Outcome of a call: a returned value or a raised exception.
Return(v) == [ok |-> TRUE, val |-> v, exc |-> "none"]
Raise(e) == [ok |-> FALSE, val |-> <<>>, exc |-> e]

\* Python truthiness of an optional string or list: None, '' and [] are falsy.
Truthy(o) == Len(o) > 0 /\ Len(o[1]) > 0

LowerAlpha == <<"a", "b", "c", "d", "e", "f", "g", "h", "i", "j", "k", "l", "m", "n", "o", "p", "q", "r", "s", "t", "u", "v", "w", "x", "y", "z">>
UpperAlpha == <<"A", "B", "C", "D", "E", "F", "G", "H", "I", "J", "K", "L", "M", "N", "O", "P", "Q", "R", "S", "T", "U", "V", "W", "X", "Y", "Z">>
Digits == <<"0", "1", "2", "3", "4", "5", "6", "7", "8", "9">>

\* str.lower() / str.upper() of one character (identity outside the letters).
lowerChar(c) ==
    IF \E i \in 1..26 : UpperAlpha[i] = c
    THEN LowerAlpha[CHOOSE i \in 1..26 : UpperAlpha[i] = c]
    ELSE c

upperChar(c) ==
    IF \E i \in 1..26 : LowerAlpha[i] = c
    THEN UpperAlpha[CHOOSE i \in 1..26 : LowerAlpha[i] = c]
    ELSE c

\* str.lower() / str.upper() of a string.
lower(s) == [i \in 1..Len(s) |-> lowerChar(s[i])]
upper(s) == [i \in 1..Len(s) |-> upperChar(s[i])]

\* sep.join(strs)
RECURSIVE join(_, _)
join(sep, strs) ==
    IF Len(strs) = 0 THEN <<>>
    ELSE IF Len(strs) = 1 THEN strs[1]
    ELSE strs[1] \o sep \o join(sep, Tail(strs))

\* s.split(sep) for a one-character separator: the pieces between the
\* separators, empty pieces kept.
RECURSIVE split(_, _)
split(s, sep) ==
    IF \A i \in 1..Len(s) : s[i] /= sep THEN <<s>>
    ELSE LET k == CHOOSE i \in 1..Len(s) :
                      s[i] = sep /\ \A j \in 1..(i - 1) : s[j] /= sep
         IN <<SubSeq(s, 1, k - 1)>> \o split(SubSeq(s, k + 1, Len(s)), sep)

\* Decimal digits of a natural number.
RECURSIVE natStr(_)
natStr(n) == IF n < 10 THEN <<Digits[n + 1]>> ELSE natStr(n \div 10) \o <<Digits[(n % 10) + 1]>>

\* f'{n}' of an int.
intStr(n) == IF n < 0 THEN <<"-">> \o natStr(-n) ELSE natStr(n)

\* f'{x}' of a float.  A float is held as its number of hundredths (4484 is
\* 44.84); Python prints the shortest decimal that reads back as the float,
\* with at least one fraction digit: 44.84, 44.8, 44.0, -0.05.
floatStr(h) ==
    LET a == IF h < 0 THEN -h ELSE h
        f == a % 100
        frac == IF f % 10 = 0 THEN <<Digits[(f \div 10) + 1]>>
                ELSE <<Digits[(f \div 10) + 1], Digits[(f % 10) + 1]>>
    IN (IF h < 0 THEN <<"-">> ELSE <<>>) \o natStr(a \div 100) \o <<".">> \o frac

---------------------------------------------------------------------------
(* overpass.py: the query builder *)

\* Default of ql_query's timeout parameter.
DefaultTimeout == 25

_make_case_insensitive(value) ==
    IF Len(value) = 0 THEN Raise("IndexError")
    ELSE Return(<<"[", lowerChar(value[1]), upperChar(value[1]), "]">>
                \o SubSeq(value, 2, Len(value)))

_bbox(lat_min, lon_min, lat_max, lon_max) ==
    <<"(">> \o floatStr(lat_min) \o <<",">> \o floatStr(lon_min) \o <<",">>
        \o floatStr(lat_max) \o <<",">> \o floatStr(lon_max) \o <<")">>

\* values, tag: strings; values: optional list of strings; timeout: int.
ql_query(bnds, tag, values, case_insensitive, timeout) ==
    LET bbox == _bbox(bnds[1], bnds[2], bnds[3], bnds[4])
        tail == intStr(timeout) \o <<"]", ";", " ", "n", "w", "r">>
        head == <<"[", "o", "u", "t", ":", "j", "s", "o", "n", "]",
                  "[", "t", "i", "m", "e", "o", "u", "t", ":">>
        end == <<";", " ", "o", "u", "t", " ", "g", "e", "o", "m", " ", "q", "t", ";">>
        text(q) == Return(head \o tail \o q \o bbox \o end)
    IN IF Truthy(values)
       THEN LET rewritten == [i \in 1..Len(values[1]) |->
                                 _make_case_insensitive(values[1][i])]
                vals == IF case_insensitive
                        THEN [i \in 1..Len(values[1]) |-> rewritten[i].val]
                        ELSE values[1]
            IN IF case_insensitive /\ \E i \in 1..Len(values[1]) : ~rewritten[i].ok
               THEN Raise("IndexError")
               ELSE IF Len(vals) > 1 \/ case_insensitive
                    THEN text(<<"[", "\"">> \o tag \o <<"\"", "~", "\"">>
                              \o join(<<"|">>, vals) \o <<"\"", "]">>)
                    ELSE text(<<"[", "\"">> \o tag \o <<"\"", "=", "\"">>
                              \o vals[1] \o <<"\"", "]">>)
       ELSE text(<<"[", "\"">> \o tag \o <<"\"", "]">>)

---------------------------------------------------------------------------
(* overpass.py: the response parser *)

\* d.get(k) == v for a dict d with optional keys.
GetIs(d, k, v) == k \in DOMAIN d /\ d[k] = v

\* A tags dict is a set of <<key, value>> pairs.
TagsHas(tags, k) == \E p \in tags : p[1] = k
TagsGet(tags, k) == (CHOOSE p \in tags : p[1] = k)[2]

\* A Feature built without the element's tags.
Feature_WithoutTags(id, geometry, properties) ==
    [type |-> "Feature", id |-> id, geometry |-> geometry, properties |-> {}]

\* geojson.Feature(id, geometry, properties): properties or {} is stored.
Feature(id, geometry, properties) ==
    [type |-> "Feature", id |-> id, geometry |-> geometry,
     properties |-> IF properties = {} THEN {} ELSE properties]

FeatureCollection(features) == [type |-> "FeatureCollection", features |-> features]

\* [[node['lon'], node['lat']] for node in geometry]
LonLat(geometry) == [i \in 1..Len(geometry) |-> <<geometry[i].lon, geometry[i].lat>>]

\* elem[k] for each k of keys raises KeyError when elem lacks one.
Lacks(elem, keys) == \E k \in keys : k \notin DOMAIN elem

\* A point routine that writes the coordinates as [lat, lon].
_as_points_LatLon(elements) ==
    LET nodes == SelectSeq(elements, LAMBDA e : GetIs(e, "type", "node"))
    IN IF \E i \in 1..Len(nodes) : Lacks(nodes[i], {"lon", "lat", "id", "tags"})
       THEN Raise("KeyError")
       ELSE Return(FeatureCollection(
                [i \in 1..Len(nodes) |->
                    Feature(nodes[i].id,
                            [type |-> "Point", coordinates |-> <<nodes[i].lat, nodes[i].lon>>],
                            nodes[i].tags)]))

_as_points(elements) ==
    LET nodes == SelectSeq(elements, LAMBDA e : GetIs(e, "type", "node"))
    IN IF \E i \in 1..Len(nodes) : Lacks(nodes[i], {"lon", "lat", "id", "tags"})
       THEN Raise("KeyError")
       ELSE Return(FeatureCollection(
                [i \in 1..Len(nodes) |->
                    Feature(nodes[i].id,
                            [type |-> "Point", coordinates |-> <<nodes[i].lon, nodes[i].lat>>],
                            nodes[i].tags)]))

_as_linestrings(elements) ==
    LET ways == SelectSeq(elements, LAMBDA e : GetIs(e, "type", "way"))
    IN IF \E i \in 1..Len(ways) : Lacks(ways[i], {"geometry", "id", "tags"})
       THEN Raise("KeyError")
       ELSE Return(FeatureCollection(
                [i \in 1..Len(ways) |->
                    Feature(ways[i].id,
                            [type |-> "LineString", coordinates |-> LonLat(ways[i].geometry)],
                            ways[i].tags)]))

_as_polygons(elements) ==
    LET ways == SelectSeq(elements, LAMBDA e : GetIs(e, "type", "way"))
    IN IF \E i \in 1..Len(ways) : Lacks(ways[i], {"geometry", "id", "tags"})
       THEN Raise("KeyError")
       ELSE Return(FeatureCollection(
                [i \in 1..Len(ways) |->
                    Feature(ways[i].id,
                            [type |-> "Polygon", coordinates |-> <<LonLat(ways[i].geometry)>>],
                            ways[i].tags)]))

_as_multipolygons(elements) ==
    LET \* e['tags']['type'] is evaluated for every relation, in the filter
        relations == SelectSeq(elements, LAMBDA e : GetIs(e, "type", "relation"))
        rels == SelectSeq(relations, LAMBDA e : TagsGet(e.tags, "type") = "multipolygon")
        coords(elem) == [m \in 1..Len(elem.members) |-> LonLat(elem.members[m].geometry)]
    IN IF \E i \in 1..Len(relations) :
              \/ Lacks(relations[i], {"tags"})
              \/ ~TagsHas(relations[i].tags, "type")
       THEN Raise("KeyError")
       ELSE IF \E i \in 1..Len(rels) : Lacks(rels[i], {"members", "id"})
       THEN Raise("KeyError")
       ELSE Return(FeatureCollection(
                [i \in 1..Len(rels) |->
                    Feature(rels[i].id,
                            [type |-> "MultiPolygon", coordinates |-> <<coords(rels[i])>>],
                            rels[i].tags)]))

\* resp: the decoded body (a dict); geometry: a string.
as_geojson(resp, geometry) ==
    LET g == lower(geometry)
        elements(routine(_)) ==
            IF "elements" \in DOMAIN resp THEN routine(resp.elements) ELSE Raise("KeyError")
    IN IF g = <<"p", "o", "i", "n", "t">>
       THEN elements(_as_points)
       ELSE IF g = <<"l", "i", "n", "e", "s", "t", "r", "i", "n", "g">>
       THEN elements(_as_linestrings)
       ELSE IF g = <<"p", "o", "l", "y", "g", "o", "n">>
       THEN elements(_as_polygons)
       ELSE IF g = <<"m", "u", "l", "t", "i", "p", "o", "l", "y", "g", "o", "n", "s">>
       THEN elements(_as_multipolygons)
       ELSE Raise("ValueError")

---------------------------------------------------------------------------
(* Inputs *)

\* All sequences over S of length at most n.
SeqUpTo(S, n) == UNION {[1..k -> S] : k \in 0..n}

\* Bounding boxes (lat_min, lon_min, lat_max, lon_max), in hundredths of a degree.
BoxPool == { <<4484, 394, 4496, 409>>, <<-3390, 15100, -3380, 15120>>, <<-5, -10, 0, 5>> }

TagPool == { <<"h", "i", "g", "h", "w", "a", "y">>, <<"n", "a", "m", "e">> }

ValuePool == { <<"p", "r", "i", "m", "a", "r", "y">>,
               <<"S", "e", "c", "o", "n", "d", "a", "r", "y">>,
               <<"4", "x", "4">>,
               <<>> }

TimeoutPool == { None, Some(25), Some(180), Some(0) }

\* Arguments of a direct call of ql_query; values and timeout may be absent.
QueryArgs ==
    [bounds : BoxPool, tag : TagPool,
     values : {None} \cup {Some(v) : v \in SeqUpTo(ValuePool, MaxValues)},
     case_insensitive : BOOLEAN, timeout : TimeoutPool]

\* Elements of an Overpass response (out geom): nodes, ways and relations as
\* the API sends them, and elements no routine matches.
Node1 == [type |-> "node", id |-> 1, lat |-> 50, lon |-> 4,
          tags |-> {<<"amenity", "cafe">>, <<"name", "Chez Leon">>}]
Node2 == [type |-> "node", id |-> 2, lat |-> -33, lon |-> 151, tags |-> {}]
Way1 == [type |-> "way", id |-> 3,
         geometry |-> <<[lat |-> 10, lon |-> 20], [lat |-> 11, lon |-> 21],
                        [lat |-> 12, lon |-> 20], [lat |-> 10, lon |-> 20]>>,
         tags |-> {<<"highway", "primary">>}]
Way2 == [type |-> "way", id |-> 4,
         geometry |-> <<[lat |-> -7, lon |-> 8], [lat |-> -9, lon |-> 6]>>,
         tags |-> {}]
Rel1 == [type |-> "relation", id |-> 5,
         members |-> <<[type |-> "way", ref |-> 30, role |-> "outer",
                        geometry |-> <<[lat |-> 0, lon |-> 1], [lat |-> 2, lon |-> 3],
                                       [lat |-> 0, lon |-> 1]>>],
                       [type |-> "way", ref |-> 31, role |-> "inner",
                        geometry |-> <<[lat |-> 4, lon |-> 5], [lat |-> 6, lon |-> 7]>>]>>,
         tags |-> {<<"type", "multipolygon">>, <<"landuse", "forest">>}]
Rel2 == [type |-> "relation", id |-> 6,
         members |-> <<[type |-> "way", ref |-> 32, role |-> "",
                        geometry |-> <<[lat |-> 8, lon |-> 9], [lat |-> 7, lon |-> 6]>>]>>,
         tags |-> {<<"type", "route">>, <<"ref", "N4">>}]
\* a relation whose tags have no 'type' entry
Rel3 == [type |-> "relation", id |-> 7,
         members |-> <<[type |-> "node", ref |-> 33, role |-> "", lat |-> 1, lon |-> 2]>>,
         tags |-> {<<"name", "Bois">>}]
\* an element with no 'type' key
NoType == [id |-> 8, tags |-> {<<"highway", "primary">>}]
\* an element of another type, without any geometry field
Area1 == [type |-> "area", id |-> 9, tags |-> {<<"name", "Ixelles">>}]

ElementPool == {Node1, Node2, Way1, Way2, Rel1, Rel2, Rel3, NoType, Area1}

\* s with its first character in upper case, and with every second one.
Capitalized(s) == [i \in 1..Len(s) |-> IF i = 1 THEN upperChar(s[i]) ELSE s[i]]
Alternating(s) == [i \in 1..Len(s) |-> IF i % 2 = 0 THEN upperChar(s[i]) ELSE s[i]]
CaseVariants(s) == {s, upper(s), Capitalized(s), Alternating(s)}

\* The four geometry kinds of the documentation and of the cli's --geom.
KindNames == { <<"p", "o", "i", "n", "t">>,
               <<"l", "i", "n", "e", "s", "t", "r", "i", "n", "g">>,
               <<"p", "o", "l", "y", "g", "o", "n">>,
               <<"m", "u", "l", "t", "i", "p", "o", "l", "y", "g", "o", "n">> }

\* Geometry strings a caller may pass: the kinds in several letter cases and
\* strings that are none of them.
GeometryPool ==
    UNION {CaseVariants(k) : k \in KindNames}
    \cup CaseVariants(<<"m", "u", "l", "t", "i", "p", "o", "l", "y", "g", "o", "n", "s">>)
    \cup { <<>>, <<"p", "o", "i", "n", "t", "s">>, <<"l", "i", "n", "e">>,
           <<"P", "o", "l", "y">>, <<"m", "u", "l", "t", "i">> }

---------------------------------------------------------------------------
(* A direct call of ql_query *)

InitQuery ==
    /\ pc = "call"
    /\ opts \in QueryArgs
    /\ bounds = None /\ query = None /\ http = None /\ response = None /\ fc = None
    /\ error = "none" /\ file = None /\ opened = 0 /\ gets = 0 /\ decoded = FALSE /\ utm_crs = None

CallQlQuery ==
    /\ pc = "call"
    /\ LET r == ql_query(opts.bounds, opts.tag, opts.values, opts.case_insensitive,
                         IF IsNone(opts.timeout) THEN DefaultTimeout ELSE opts.timeout[1])
       IN /\ pc' = IF r.ok THEN "returned" ELSE "raised"
          /\ query' = IF r.ok THEN Some(r.val) ELSE None
          /\ error' = r.exc
    /\ UNCHANGED <<opts, bounds, http, response, fc, file, opened, gets, decoded, utm_crs>>

NextQuery == CallQlQuery

SpecQuery == InitQuery /\ [][NextQuery]_vars


---------------------------------------------------------------------------
(* A direct call of as_geojson *)

InitParse ==
    /\ pc = "call"
    /\ opts \in [geometry : GeometryPool]
    /\ response \in {Some([elements |-> es]) : es \in SeqUpTo(ElementPool, MaxElems)}
    /\ bounds = None /\ query = None /\ http = None /\ fc = None
    /\ error = "none" /\ file = None /\ opened = 0 /\ gets = 0 /\ decoded = FALSE /\ utm_crs = None

CallAsGeojson ==
    /\ pc = "call"
    /\ LET r == as_geojson(response[1], opts.geometry)
       IN /\ pc' = IF r.ok THEN "returned" ELSE "raised"
          /\ fc' = IF r.ok THEN Some(r.val) ELSE None
          /\ error' = r.exc
    /\ UNCHANGED <<opts, bounds, query, http, response, file, opened, gets, decoded, utm_crs>>

NextParse == CallAsGeojson

SpecParse == InitParse /\ [][NextParse]_vars

---------------------------------------------------------------------------
(* Claims about ql_query (checked under SpecQuery) *)

\* The argument values of the call, None when absent, and its timeout.
CalledValues == IF IsNone(opts.values) THEN <<>> ELSE opts.values[1]
CalledTimeout == IF IsNone(opts.timeout) THEN 25 ELSE opts.timeout[1]

\* The rewriting the specification describes: the first character c becomes
\* the class [lower(c) upper(c)], the rest is untouched (a value with no
\* first character has nothing to rewrite).
ClaimedRewrite(v) ==
    IF Len(v) = 0 THEN v
    ELSE <<"[">> \o lower(<<Head(v)>>) \o upper(<<Head(v)>>) \o <<"]">> \o Tail(v)

\* The alternatives of the regex form, in input order.
ClaimedAlternatives ==
    [i \in 1..Len(CalledValues) |->
        IF opts.case_insensitive THEN ClaimedRewrite(CalledValues[i]) ELSE CalledValues[i]]

\* The tag clause, by the specification's priority order.
ClaimedClause ==
    IF Len(CalledValues) = 0
    THEN <<"[", "\"">> \o opts.tag \o <<"\"", "]">>
    ELSE IF Len(CalledValues) = 1 /\ ~opts.case_insensitive
    THEN <<"[", "\"">> \o opts.tag \o <<"\"", "=", "\"">> \o CalledValues[1] \o <<"\"", "]">>
    ELSE <<"[", "\"">> \o opts.tag \o <<"\"", "~", "\"">>
            \o join(<<"|">>, ClaimedAlternatives) \o <<"\"", "]">>

ClaimedBbox ==
    <<"(">> \o floatStr(opts.bounds[1]) \o <<",">> \o floatStr(opts.bounds[2]) \o <<",">>
        \o floatStr(opts.bounds[3]) \o <<",">> \o floatStr(opts.bounds[4]) \o <<")">>

\* '[out:json][timeout:<t>]; nwr<clause><bbox>; out geom qt;'
ClaimedQuery ==
    <<"[", "o", "u", "t", ":", "j", "s", "o", "n", "]",
      "[", "t", "i", "m", "e", "o", "u", "t", ":">> \o intStr(CalledTimeout)
      \o <<"]", ";", " ", "n", "w", "r">> \o ClaimedClause \o ClaimedBbox
      \o <<";", " ", "o", "u", "t", " ", "g", "e", "o", "m", " ", "q", "t", ";">>

\* The call has case_insensitive set and a values list holding an empty string.
EmptyValueCaseInsensitive ==
    opts.case_insensitive /\ \E i \in 1..Len(CalledValues) : Len(CalledValues[i]) = 0

\* C1: for every bounding box, tag, values and timeout, ql_query returns
\* exactly '[out:json][timeout:<t>]; nwr<clause>(<bbox>); out geom qt;' (t = 25
\* when not given), the clause chosen in the order: no values -> ["tag"];
\* one value, case-sensitive -> ["tag"="value"]; otherwise -> ["tag"~"v1|...|vn"]
\* (under case_insensitive the alternatives are the rewritten values).
C1_QueryText ==
    pc /= "call" => (pc = "returned" /\ query = Some(ClaimedQuery))

\* C2: called with case_insensitive and a non-empty values list, ql_query
\* returns a query whose clause is the regex form over the values, each with
\* its first character rewritten to [lower upper], joined by '|' in input order.
C2_CaseInsensitiveRegex ==
    (pc /= "call" /\ opts.case_insensitive /\ Len(CalledValues) > 0) =>
        /\ pc = "returned"
        /\ \E pre, post \in 6..Len(query[1]) :
              /\ pre + post <= Len(query[1])
              /\ SubSeq(query[1], pre - 5, pre) = <<"]", ";", " ", "n", "w", "r">>
              /\ SubSeq(query[1], Len(query[1]) - post + 1, Len(query[1]))
                    = ClaimedBbox \o <<";", " ", "o", "u", "t", " ", "g", "e", "o", "m", " ", "q", "t", ";">>
              /\ SubSeq(query[1], pre + 1, Len(query[1]) - post)
                    = <<"[", "\"">> \o opts.tag \o <<"\"", "~", "\"">>
                        \o join(<<"|">>, [i \in 1..Len(CalledValues) |-> ClaimedRewrite(CalledValues[i])])
                        \o <<"\"", "]">>

\* C8: ql_query has no error outcome: whatever the bounding box, tag, values
\* (absent, empty, or strings, the empty string included) and case_insensitive,
\* it returns a query and never raises.
C8_NeverRaises ==
    pc /= "raised" /\ error = "none"

\* What the code does instead: ql_query raises (IndexError) exactly when
\* case_insensitive is set and some value is the empty string, and on every
\* other call returns the text the specification describes.
QlQueryRaisesOnlyOnEmptyValue ==
    pc /= "call" =>
        IF EmptyValueCaseInsensitive
        THEN pc = "raised" /\ error = "IndexError" /\ IsNone(query)
        ELSE pc = "returned" /\ error = "none" /\ query = Some(ClaimedQuery)


---------------------------------------------------------------------------
(* Claims about as_geojson (checked under SpecParse) *)

Elements == response[1].elements
Features == fc[1].features

\* a and b are the same string up to letter case.
SameLetters(a, b) ==
    Len(a) = Len(b) /\ \A i \in 1..Len(a) : lowerChar(a[i]) = lowerChar(b[i])

\* The geometry argument names one of the four documented kinds.
NamesAKind == \E k \in KindNames : SameLetters(opts.geometry, k)

\* The routine as_geojson hands the elements to, "none" when it has none.
Routine ==
    IF SameLetters(opts.geometry, <<"p", "o", "i", "n", "t">>) THEN "point"
    ELSE IF SameLetters(opts.geometry, <<"l", "i", "n", "e", "s", "t", "r", "i", "n", "g">>)
    THEN "linestring"
    ELSE IF SameLetters(opts.geometry, <<"p", "o", "l", "y", "g", "o", "n">>) THEN "polygon"
    ELSE IF SameLetters(opts.geometry,
                        <<"m", "u", "l", "t", "i", "p", "o", "l", "y", "g", "o", "n", "s">>)
    THEN "multipolygon"
    ELSE "none"

\* The element filter of each kind, as the specification's table gives it.
IsOfType(e, ty) == "type" \in DOMAIN e /\ e.type = ty
IsMultipolygonRelation(e) ==
    /\ IsOfType(e, "relation")
    /\ "tags" \in DOMAIN e
    /\ <<"type", "multipolygon">> \in e.tags
Matches(kind, e) ==
    CASE kind = "point" -> IsOfType(e, "node")
      [] kind = "linestring" -> IsOfType(e, "way")
      [] kind = "polygon" -> IsOfType(e, "way")
      [] kind = "multipolygon" -> IsMultipolygonRelation(e)
      [] OTHER -> FALSE

GeoJsonType(kind) ==
    CASE kind = "point" -> "Point"
      [] kind = "linestring" -> "LineString"
      [] kind = "polygon" -> "Polygon"
      [] kind = "multipolygon" -> "MultiPolygon"
      [] OTHER -> "none"

\* The positions, in input order, of the elements the kind's filter keeps.
MatchingIndices(kind) ==
    SelectSeq([i \in 1..Len(Elements) |-> i], LAMBDA i : Matches(kind, Elements[i]))

\* The kind the geometry argument names, by the documentation.
NamedKind ==
    IF SameLetters(opts.geometry, <<"p", "o", "i", "n", "t">>) THEN "point"
    ELSE IF SameLetters(opts.geometry, <<"l", "i", "n", "e", "s", "t", "r", "i", "n", "g">>)
    THEN "linestring"
    ELSE IF SameLetters(opts.geometry, <<"p", "o", "l", "y", "g", "o", "n">>) THEN "polygon"
    ELSE "multipolygon"

\* C3: as_geojson accepts 'point', 'linestring', 'polygon' and 'multipolygon'
\* in any letter case and returns, instead of raising, the FeatureCollection
\* of that kind's routine: one Point per node, one LineString or Polygon per
\* way, one MultiPolygon per relation tagged type=multipolygon.
C3_FourKindsAccepted ==
    (pc /= "call" /\ NamesAKind) =>
        /\ pc = "returned"
        /\ Len(Features) = Len(MatchingIndices(NamedKind))
        /\ \A k \in 1..Len(Features) : Features[k].geometry.type = GeoJsonType(NamedKind)

\* C4: as_geojson raises ValueError for every geometry string that, letter
\* case aside, is not one of the four names, and returns no FeatureCollection
\* for any of them.
C4_OtherStringsRejected ==
    (pc /= "call" /\ ~NamesAKind) =>
        pc = "raised" /\ error = "ValueError" /\ IsNone(fc)

\* C5: for kind 'point' the collection holds exactly one Feature per element
\* of type node, in input order, each a Point at [lon, lat] of its node; for
\* kind 'linestring' exactly one per element of type way, in input order, its
\* LineString coordinates the way's vertices in order, each as [lon, lat].
C5_PointsAndLineStrings ==
    /\ (pc /= "call" /\ Routine = "point") =>
          /\ pc = "returned"
          /\ LET idx == MatchingIndices("point")
             IN /\ Len(Features) = Len(idx)
                /\ \A k \in 1..Len(idx) :
                      LET e == Elements[idx[k]]
                      IN /\ Features[k].id = e.id
                         /\ Features[k].geometry.type = "Point"
                         /\ Features[k].geometry.coordinates = <<e.lon, e.lat>>
    /\ (pc /= "call" /\ Routine = "linestring") =>
          /\ pc = "returned"
          /\ LET idx == MatchingIndices("linestring")
             IN /\ Len(Features) = Len(idx)
                /\ \A k \in 1..Len(idx) :
                      LET e == Elements[idx[k]]
                          c == Features[k].geometry.coordinates
                      IN /\ Features[k].id = e.id
                         /\ Features[k].geometry.type = "LineString"
                         /\ Len(c) = Len(e.geometry)
                         /\ \A j \in 1..Len(c) :
                               c[j] = <<e.geometry[j].lon, e.geometry[j].lat>>

\* A point collection built from two elements of which only the second is a node.
C5_Witness ==
    /\ pc = "returned" /\ Routine = "point"
    /\ Len(Elements) = 2 /\ ~IsOfType(Elements[1], "node")
    /\ Len(Features) = 1 /\ Features[1].id = Elements[2].id

\* C6: whatever the kind and the response, every Feature of the returned
\* collection has the id of the element it was built from and, as properties,
\* that element's tags with no entry added, removed or changed (empty tags
\* included).
C6_IdAndTagsUnchanged ==
    pc = "returned" =>
        LET idx == MatchingIndices(Routine)
        IN /\ Len(Features) = Len(idx)
           /\ \A k \in 1..Len(idx) :
                 /\ Features[k].id = Elements[idx[k]].id
                 /\ Features[k].properties = Elements[idx[k]].tags

\* A returned collection holding a Feature built from an element without tags
\* and one built from an element with tags.
C6_Witness ==
    /\ pc = "returned"
    /\ Len(Features) = 2
    /\ Features[1].properties = {}
    /\ Cardinality(Features[2].properties) = 1

\* C9: each routine drops the elements its filter does not match without
\* raising, whatever fields they have or lack (no 'type' key; another type
\* without geometry fields; for the multipolygon routine a relation whose tags
\* have no 'type' entry), and still returns the matching elements.
C9_NonMatchingDropped ==
    (pc /= "call" /\ Routine /= "none") =>
        /\ pc = "returned"
        /\ LET idx == MatchingIndices(Routine)
           IN /\ Len(Features) = Len(idx)
              /\ \A k \in 1..Len(idx) : Features[k].id = Elements[idx[k]].id

\* What the code does instead: as_geojson dispatches on 'multipolygons', not
\* 'multipolygon'; the multipolygon routine raises KeyError when the response
\* holds a relation whose tags have no 'type' entry; every other call behaves
\* as the specification describes.
AsGeojsonOutcome ==
    pc /= "call" =>
        IF Routine = "none"
        THEN pc = "raised" /\ error = "ValueError" /\ IsNone(fc)
        ELSE IF Routine = "multipolygon"
                /\ \E i \in 1..Len(Elements) :
                      /\ IsOfType(Elements[i], "relation")
                      /\ \A p \in Elements[i].tags : p[1] /= "type"
        THEN pc = "raised" /\ error = "KeyError" /\ IsNone(fc)
        ELSE /\ pc = "returned"
             /\ Len(Features) = Len(MatchingIndices(Routine))
             /\ \A k \in 1..Len(Features) : Features[k].geometry.type = GeoJsonType(Routine)


---------------------------------------------------------------------------
(* overpass.py: the request dispatcher *)

\* response.json(): the decoded body, or the decoder's error when the body is
\* not JSON.
json(resp) == IF resp.valid THEN Return(resp.body) ELSE Raise("JSONDecodeError")

\* What request does with the response of its requests.get: res is the
\* outcome, decoded tells whether response.json() was reached.
request_AnyNon200Raises(resp) ==
    IF resp.status_code = 302 THEN [res |-> Raise("OverpassMoved"), decoded |-> FALSE]
    ELSE IF resp.status_code = 400 THEN [res |-> Raise("OverpassBadRequest"), decoded |-> FALSE]
    ELSE IF resp.status_code = 429 THEN [res |-> Raise("OverpassTooManyRequests"), decoded |-> FALSE]
    ELSE IF resp.status_code = 504 THEN [res |-> Raise("OverpassGatewayTimeout"), decoded |-> FALSE]
    ELSE IF resp.status_code /= 200 THEN [res |-> Raise("HTTPError"), decoded |-> FALSE]
    ELSE [res |-> json(resp), decoded |-> TRUE]

request(resp) ==
    IF resp.status_code = 302 THEN [res |-> Raise("OverpassMoved"), decoded |-> FALSE]
    ELSE IF resp.status_code = 400 THEN [res |-> Raise("OverpassBadRequest"), decoded |-> FALSE]
    ELSE IF resp.status_code = 429 THEN [res |-> Raise("OverpassTooManyRequests"), decoded |-> FALSE]
    ELSE IF resp.status_code = 504 THEN [res |-> Raise("OverpassGatewayTimeout"), decoded |-> FALSE]
    ELSE [res |-> json(resp), decoded |-> TRUE]

\* HTTP status codes the endpoint may answer with.
StatusPool == {200, 302, 400, 429, 504, 404, 500, 503}

\* Bodies: JSON documents with and without 'elements', and an HTML page.
JsonBodies == { [elements |-> <<>>],
                [elements |-> <<Node1, Way1, Rel1>>],
                [remark |-> "runtime error: Query timed out"] }
HtmlBody == [html |-> "<html>...</html>"]

HttpPool ==
    [status_code : StatusPool, valid : {TRUE}, body : JsonBodies]
    \cup [status_code : StatusPool, valid : {FALSE}, body : {HtmlBody}]

\* Queries handed to a direct call of request.
QueryPool ==
    { ql_query(b, <<"h", "i", "g", "h", "w", "a", "y">>, v, FALSE, DefaultTimeout).val :
        b \in BoxPool, v \in {None, Some(<< <<"p", "r", "i", "m", "a", "r", "y">> >>)} }

---------------------------------------------------------------------------
(* A direct call of request *)

InitRequest ==
    /\ pc = "call"
    /\ opts = [endpoint |-> "http://overpass-api.de/api/interpreter"]
    /\ query \in {Some(q) : q \in QueryPool}
    /\ bounds = None /\ http = None /\ response = None /\ fc = None
    /\ error = "none" /\ file = None /\ opened = 0 /\ gets = 0 /\ decoded = FALSE /\ utm_crs = None

\* requests.get(endpoint, params={'data': query}) is issued once; the
\* endpoint's answer is any response of HttpPool.
CallRequest ==
    /\ pc = "call"
    /\ \E resp \in HttpPool :
          LET r == request(resp)
          IN /\ gets' = gets + 1
             /\ http' = Some(resp)
             /\ decoded' = r.decoded
             /\ pc' = IF r.res.ok THEN "returned" ELSE "raised"
             /\ response' = IF r.res.ok THEN Some(r.res.val) ELSE None
             /\ error' = r.res.exc
    /\ UNCHANGED <<opts, bounds, query, fc, file, opened, utm_crs>>

NextRequest == CallRequest

SpecRequest == InitRequest /\ [][NextRequest]_vars

---------------------------------------------------------------------------
(* Claims about request (checked under SpecRequest) *)

\* C7: request issues a single GET and maps its status: 302 -> OverpassMoved,
\* 400 -> OverpassBadRequest, 429 -> OverpassTooManyRequests, 504 ->
\* OverpassGatewayTimeout, each raised without decoding the body and without
\* returning a response; for 200 and every status outside that table the body
\* is JSON-decoded and the decoded document is returned as it is (a body that
\* is not JSON ends in the decoder's error, not in one of the four); no second
\* request is issued.
C7_StatusMapping ==
    /\ gets <= 1
    /\ pc /= "call" =>
          LET s == http[1].status_code
              raises(e) == pc = "raised" /\ error = e /\ ~decoded /\ IsNone(response)
          IN /\ gets = 1
             /\ s = 302 => raises("OverpassMoved")
             /\ s = 400 => raises("OverpassBadRequest")
             /\ s = 429 => raises("OverpassTooManyRequests")
             /\ s = 504 => raises("OverpassGatewayTimeout")
             /\ s \notin {302, 400, 429, 504} =>
                   /\ decoded
                   /\ http[1].valid =>
                         pc = "returned" /\ error = "none" /\ response = Some(http[1].body)
                   /\ ~http[1].valid =>
                         pc = "raised" /\ error = "JSONDecodeError" /\ IsNone(response)

\* A status outside the table (404) whose JSON body was decoded and returned.
C7_Witness ==
    /\ pc = "returned" /\ gets = 1 /\ decoded
    /\ http[1].status_code = 404
    /\ response = Some(http[1].body)


---------------------------------------------------------------------------
(* location.py: bounds resolution, as far as the cli depends on it *)

\* from_file: the file's metadata is read by fiona or rasterio (src: what
\* they find); the bounds are reordered from (x_min, y_min, x_max, y_max) and,
\* unless the CRS is EPSG:4326 or unset, reprojected by pyproj.
from_file(src) ==
    IF ~src.readable THEN Raise("IOError")
    ELSE LET crs == IF src.crs = <<>> THEN <<"e", "p", "s", "g", ":", "4", "3", "2", "6">>
                    ELSE src.crs
             reordered == <<src.bounds[2], src.bounds[1], src.bounds[4], src.bounds[3]>>
         IN IF lower(crs) /= <<"e", "p", "s", "g", ":", "4", "3", "2", "6">>
            THEN Return(src.reprojected)
            ELSE Return(reordered)

\* from_buffer: a buffer of buffer_size metres around (lat, lon), computed by
\* shapely and pyproj (box: what they return); without a size the buffer
\* cannot be computed.
from_buffer(lat, lon, buffer_size, box) ==
    IF IsNone(buffer_size) THEN Raise("TypeError") ELSE Return(box)

\* What fiona/rasterio may find in the input file.
FilePool ==
    { [readable |-> FALSE, crs |-> <<>>, bounds |-> <<0, 0, 0, 0>>,
       reprojected |-> <<0, 0, 0, 0>>],
      [readable |-> TRUE, crs |-> <<>>, bounds |-> <<394, 4484, 409, 4496>>,
       reprojected |-> <<0, 0, 0, 0>>],
      [readable |-> TRUE, crs |-> <<"E", "P", "S", "G", ":", "3", "2", "6", "3", "1">>,
       bounds |-> <<58722711, 561960409, 60722711, 563960409>>,
       reprojected |-> <<5072, 424, 5090, 452>>] }

\* What the geocoder may answer: a (lat, lon) position, or nothing.
GeocodePool == { None, Some(<<5081, 438>>) }

\* The box shapely and pyproj compute around a position.
BufferBox == <<5080, 437, 5082, 439>>

---------------------------------------------------------------------------
(* cli.py: the command *)

\* The values --geom accepts.
GeomChoices == { <<"p", "o", "i", "n", "t">>,
                 <<"l", "i", "n", "e", "s", "t", "r", "i", "n", "g">>,
                 <<"p", "o", "l", "y", "g", "o", "n">>,
                 <<"m", "u", "l", "t", "i", "p", "o", "l", "y", "g", "o", "n">> }

\* A FeatureCollection an earlier run left in the output file.
OldOutput == FeatureCollection(<<Feature(0, [type |-> "Point", coordinates |-> <<0, 0>>], {})>>)

\* Option values of one run; existing is the output file before the run.
CliOptions ==
    [fromfile : {None, Some(<<"a", ".", "s", "h", "p">>)},
     latlon : {None, Some(<<5081, 438>>)},
     address : {None, Some(<<"U", "L", "B">>)},
     buffer : {None, Some(1000)},
     tag : {None, Some(<<"h", "i", "g", "h", "w", "a", "y">>)},
     values : {None, Some(<<>>), Some(<<"p", "r", "i", "m", "a", "r", "y">>),
               Some(<<"a", ",", ",", "b">>)},
     case_insensitive : BOOLEAN,
     geom : {None} \cup {Some(g) : g \in GeomChoices},
     existing : {None, Some(OldOutput)}]

\* Answers of the endpoint to the command's request.
CliHttpPool ==
    { [status_code |-> 200, valid |-> TRUE, body |-> [elements |-> <<Node1, Way1, Rel1>>]],
      [status_code |-> 200, valid |-> TRUE, body |-> [elements |-> <<>>]],
      [status_code |-> 302, valid |-> FALSE, body |-> HtmlBody],
      [status_code |-> 400, valid |-> FALSE, body |-> HtmlBody],
      [status_code |-> 429, valid |-> FALSE, body |-> HtmlBody],
      [status_code |-> 504, valid |-> FALSE, body |-> HtmlBody],
      [status_code |-> 500, valid |-> FALSE, body |-> HtmlBody],
      [status_code |-> 404, valid |-> TRUE,
       body |-> [remark |-> "runtime error: Query timed out"]] }

Init ==
    /\ pc = "bounds"
    /\ opts \in CliOptions
    /\ file = opts.existing
    /\ bounds = None /\ query = None /\ http = None /\ response = None /\ fc = None
    /\ error = "none" /\ opened = 0 /\ gets = 0 /\ decoded = FALSE /\ utm_crs = None

\* The run continues at stage next with no error, or ends in the error e.
Continue(next) == pc' = next /\ error' = "none"
Fail(e) == pc' = "error" /\ error' = e

\* if fromfile: ... elif latlon: ... elif address: ... else: raise
ResolveBounds ==
    /\ pc = "bounds"
    /\ \E src \in FilePool, loc \in GeocodePool :
          LET r == IF Truthy(opts.fromfile) THEN from_file(src)
                   ELSE IF Truthy(opts.latlon)
                   THEN from_buffer(opts.latlon[1][1], opts.latlon[1][2], opts.buffer, BufferBox)
                   ELSE IF Truthy(opts.address)
                   THEN IF IsNone(loc) THEN Raise("AttributeError")
                        ELSE from_buffer(loc[1][1], loc[1][2], opts.buffer, BufferBox)
                   ELSE Raise("BadOptionUsage")
          IN IF r.ok
             THEN bounds' = Some(r.val) /\ Continue("query")
             ELSE bounds' = None /\ Fail(r.exc)
    /\ UNCHANGED <<opts, query, http, response, fc, file, opened, gets, decoded, utm_crs>>

\* if values: values = values.split(','); query = ql_query(bounds, tag, values, case_insensitive)
BuildQuery ==
    /\ pc = "query"
    /\ LET values == IF Truthy(opts.values) THEN Some(split(opts.values[1], ","))
                     ELSE opts.values
           tag == IF IsNone(opts.tag) THEN <<"N", "o", "n", "e">> ELSE opts.tag[1]
           r == ql_query(bounds[1], tag, values, opts.case_insensitive, DefaultTimeout)
       IN IF r.ok
          THEN query' = Some(r.val) /\ Continue("request")
          ELSE query' = None /\ Fail(r.exc)
    /\ UNCHANGED <<opts, bounds, http, response, fc, file, opened, gets, decoded, utm_crs>>

\* response = request(query)
SendRequest ==
    /\ pc = "request"
    /\ \E resp \in CliHttpPool :
          LET r == request(resp)
          IN /\ gets' = gets + 1
             /\ http' = Some(resp)
             /\ decoded' = r.decoded
             /\ IF r.res.ok
                THEN response' = Some(r.res.val) /\ Continue("parse")
                ELSE response' = None /\ Fail(r.res.exc)
    /\ UNCHANGED <<opts, bounds, query, fc, file, opened, utm_crs>>

\* A parse stage that opens the output file before parsing the response.
ParseResponse_OpensOutputFirst ==
    /\ pc = "parse"
    /\ LET r == IF IsNone(opts.geom) THEN Raise("BadOptionUsage")
                ELSE as_geojson(response[1], opts.geom[1])
       IN /\ opened' = opened + 1
          /\ file' = Some(FeatureCollection(<<>>))
          /\ IF r.ok
             THEN fc' = Some(r.val) /\ Continue("write")
             ELSE fc' = None /\ Fail(r.exc)
    /\ UNCHANGED <<opts, bounds, query, http, response, gets, decoded, utm_crs>>

\* if not geom: raise ...; feature_collection = as_geojson(response, geom)
ParseResponse ==
    /\ pc = "parse"
    /\ LET r == IF IsNone(opts.geom) THEN Raise("BadOptionUsage")
                ELSE as_geojson(response[1], opts.geom[1])
       IN IF r.ok
          THEN fc' = Some(r.val) /\ Continue("write")
          ELSE fc' = None /\ Fail(r.exc)
    /\ UNCHANGED <<opts, bounds, query, http, response, file, opened, gets, decoded, utm_crs>>

\* with open(output, 'w') as f: json.dump(feature_collection, f)
\* open fails when the path cannot be written.
WriteOutput ==
    /\ pc = "write"
    /\ \E writable \in BOOLEAN :
          IF writable
          THEN opened' = opened + 1 /\ file' = Some(fc[1]) /\ Continue("done")
          ELSE opened' = opened /\ file' = file /\ Fail("OSError")
    /\ UNCHANGED <<opts, bounds, query, http, response, fc, gets, decoded, utm_crs>>

Next ==
    \/ ResolveBounds
    \/ BuildQuery
    \/ SendRequest
    \/ ParseResponse
    \/ WriteOutput

Spec == Init /\ [][Next]_vars

---------------------------------------------------------------------------
(* Claims about the cli command (checked under Spec) *)

\* The output file is as it was before the run and was never opened.
OutputUntouched == opened = 0 /\ file = opts.existing

\* No location source was given: none of --fromfile, --latlon, --address.
NoLocation == ~Truthy(opts.fromfile) /\ ~Truthy(opts.latlon) /\ ~Truthy(opts.address)

\* The endpoint answered with one of the statuses the dispatcher raises for.
DispatcherError == ~IsNone(http) /\ http[1].status_code \in {302, 400, 429, 504}

\* C10: in every run of the cli command the output file is opened and written
\* only after bounds resolution, query building, the request and the GeoJSON
\* parse have all succeeded; a run that ends in an error (no location source,
\* no --geom, a dispatcher error for 302/400/429/504, an invalid geometry
\* kind, or any other) has raised it and has neither created nor modified the
\* output file.
C10_OutputOnlyAfterSuccess ==
    /\ ~OutputUntouched =>
          /\ pc = "done" /\ error = "none" /\ opened = 1
          /\ ~IsNone(bounds) /\ ~IsNone(query) /\ ~IsNone(response) /\ ~IsNone(fc)
          /\ gets = 1 /\ decoded
          /\ file = fc
    /\ pc = "error" => error /= "none" /\ OutputUntouched
    /\ (NoLocation /\ pc /= "bounds") => pc = "error" /\ error = "BadOptionUsage"
    /\ (IsNone(opts.geom) /\ pc \notin {"bounds", "query", "request", "parse"}) =>
          pc = "error"
    /\ DispatcherError =>
          /\ pc = "error"
          /\ error \in {"OverpassMoved", "OverpassBadRequest",
                        "OverpassTooManyRequests", "OverpassGatewayTimeout"}
    /\ error = "ValueError" => pc = "error" /\ IsNone(fc)

\* A run that resolved its bounds, built its query and got a 200 answer, then
\* failed in the parse on its geometry kind, with an earlier output file in place.
C10_Witness ==
    /\ pc = "error" /\ error = "ValueError"
    /\ ~IsNone(response) /\ http[1].status_code = 200
    /\ ~IsNone(opts.existing) /\ file = opts.existing /\ opened = 0

---------------------------------------------------------------------------
(* location.py: the UTM zone of a position *)

\* A zone computed without the wrap of longitude 180 into zone 1.
_find_utm_crs_NoWrap(lat, lon) ==
    LET utm_zone == ((lon + 18000) \div 600) + 1
        pole == IF lat >= 0 THEN 600 ELSE 700
        epsg == 32000 + pole + utm_zone
    IN [init |-> <<"e", "p", "s", "g", ":">> \o intStr(epsg)]

\* lat, lon: floats, held in hundredths of a degree, so that
\* (lon + 180) // 6 is (lon + 18000) \div 600; math.floor leaves the floored
\* quotient as it is.
_find_utm_crs(lat, lon) ==
    LET utm_zone == (((lon + 18000) \div 600) % 60) + 1
        pole == IF lat >= 0 THEN 600 ELSE 700
        epsg == 32000 + pole + utm_zone
    IN [init |-> <<"e", "p", "s", "g", ":">> \o intStr(epsg)]

\* Latitudes and longitudes of a direct call, in hundredths of a degree:
\* every longitude of [-180, 180], latitudes of both hemispheres, the
\* equator and values next to it.
LatPool == {-9000, -3390, -1, 0, 1, 5081}
LonPool == -18000..18000

---------------------------------------------------------------------------
(* A direct call of _find_utm_crs *)

InitUtm ==
    /\ pc = "call"
    /\ opts \in [lat : LatPool, lon : LonPool]
    /\ bounds = None /\ query = None /\ http = None /\ response = None /\ fc = None
    /\ error = "none" /\ file = None /\ opened = 0 /\ gets = 0 /\ decoded = FALSE
    /\ utm_crs = None

CallFindUtmCrs ==
    /\ pc = "call"
    /\ pc' = "returned"
    /\ utm_crs' = Some(_find_utm_crs(opts.lat, opts.lon))
    /\ UNCHANGED <<opts, bounds, query, http, response, fc, error, file, opened, gets, decoded>>

NextUtm == CallFindUtmCrs

SpecUtm == InitUtm /\ [][NextUtm]_vars

---------------------------------------------------------------------------
(* Claims about _find_utm_crs (checked under SpecUtm) *)

\* z is the zone of longitude lon (hundredths): the 6-degree band, counted
\* from 1 at -180, that holds lon; longitude 180 itself falls in zone 1.
IsZoneOf(z, lon) ==
    IF lon = 18000 THEN z = 1
    ELSE 600 * (z - 1) <= lon + 18000 /\ lon + 18000 < 600 * z

\* 'epsg:326zz' (north) or 'epsg:327zz' (south) for the two-digit zone zz.
EpsgText(north, z) ==
    <<"e", "p", "s", "g", ":", "3", "2">> \o (IF north THEN <<"6">> ELSE <<"7">>)
        \o <<Digits[(z \div 10) + 1], Digits[(z % 10) + 1]>>

\* C11: for every latitude and every longitude of [-180, 180], _find_utm_crs
\* returns {'init': 'epsg:<E>'} with E = 32600 + zone for lat >= 0 and
\* 32700 + zone for lat < 0, zone = (floor((lon + 180) / 6) mod 60) + 1, so
\* that zone is in 1..60 (180 wraps to zone 1) and E in 32601..32660 or
\* 32701..32760; (50.81, 4.38) gives epsg:32631.
C11_UtmCrs ==
    pc = "returned" =>
        /\ \E z \in 1..60 :
              /\ IsZoneOf(z, opts.lon)
              /\ utm_crs = Some([init |-> EpsgText(opts.lat >= 0, z)])
        /\ (opts.lat = 5081 /\ opts.lon = 438) =>
              utm_crs[1].init = <<"e", "p", "s", "g", ":", "3", "2", "6", "3", "1">>

\* A call at longitude 180 in the southern hemisphere, answered with zone 1.
C11_Witness ==
    /\ pc = "returned" /\ opts.lon = 18000 /\ opts.lat < 0
    /\ utm_crs[1].init = <<"e", "p", "s", "g", ":", "3", "2", "7", "0", "1">>

=============================================================================
